---- MODULE Spec2Model ----
(***************************************************************************)
(* ByteBowl food-ordering webhook backend: the session cart                *)
(* (session_orders), the order ledger (orders, order_tracking) and the     *)
(* handlers of backend/main.py running the transactions of                 *)
(* backend/db_helper.py.  Every handler runs as a task; tasks interleave   *)
(* at the granularity of the database transactions and of the statements   *)
(* inside them whose reads and writes other transactions can separate.     *)
(***************************************************************************)
EXTENDS Integers, Sequences, FiniteSets, TLC

(* ------------------------------ bounds --------------------------------- *)
\* largest quantity a request carries
MaxQty == 2
\* a request that could take a cart line beyond this quantity is not issued
MaxCartQty == 2
\* number of orders the ledger receives
MaxOrders == 2
\* number of webhook requests handled
MaxRequests == 4

(* ------------------------------ strings -------------------------------- *)
\* Names are character sequences, so that LIKE and LOWER have something to
\* compute on.
Pizza == <<"P", "i", "z", "z", "a">>
Chole == <<"C", "h", "o", "l", "e">>
\* part of a name: no name of food_items equals it, whatever the collation
Pizz == <<"P", "i", "z", "z">>
Sushi == <<"S", "u", "s", "h", "i">>

\* the names a request may carry
Names == {Pizza, Chole, Pizz, Sushi}

Sessions == {"s1", "s2"}
Tasks == {"t1", "t2"}

UpperToLower == ("P" :> "p") @@ ("C" :> "c") @@ ("S" :> "s")

\* SQL LOWER()
LOWER(str) ==
    [k \in 1..Len(str) |->
        IF str[k] \in DOMAIN UpperToLower THEN UpperToLower[str[k]] ELSE str[k]]

\* hay LIKE CONCAT('%', needle, '%')
LIKE(hay, needle) ==
    \E k \in 0..(Len(hay) - Len(needle)) :
        SubSeq(hay, k + 1, k + Len(needle)) = needle

(* ------------------------------ catalog -------------------------------- *)
\* the food_items table: read-only reference data
food_items ==
    { [item_id |-> 1, name |-> Pizza, price |-> 8],
      [item_id |-> 2, name |-> Chole, price |-> 6] }

ItemIds == {f.item_id : f \in food_items}

\* SELECT name, item_id FROM food_items WHERE name IN (names)
name_to_id(names) ==
    [n \in {f.name : f \in {g \in food_items : g.name \in names}} |->
        (CHOOSE f \in food_items : f.name = n).item_id]

\* SELECT name, item_id, price FROM food_items WHERE name IN (names)
item_details(names) ==
    [n \in {f.name : f \in {g \in food_items : g.name \in names}} |->
        CHOOSE f \in food_items : f.name = n]

ItemName(id) == (CHOOSE f \in food_items : f.item_id = id).name

(* --------------------------- generic helpers --------------------------- *)
Range(f) == {f[x] : x \in DOMAIN f}

EmptyDict == [n \in {} |-> 0]

RECURSIVE SumOver(_, _)
SumOver(S, f) ==
    IF S = {} THEN 0
    ELSE LET x == CHOOSE y \in S : TRUE IN f[x] + SumOver(S \ {x}, f)

MaxOf(S) == CHOOSE m \in S : \A n \in S : n <= m

(* ------------------------- session_orders table ------------------------ *)
\* A row of session_orders is [session_id, item_id, quantity]; the table is
\* a set of rows.

\* the unique key of session_orders
session_orders_key(r) == <<r.session_id, r.item_id>>

RowsOf(so, s, id) == {r \in so : session_orders_key(r) = <<s, id>>}

\* the quantity the table holds for (s, id): 0 when there is no row
RECURSIVE QtySum(_)
QtySum(rows) ==
    IF rows = {} THEN 0
    ELSE LET r == CHOOSE x \in rows : TRUE IN r.quantity + QtySum(rows \ {r})

Qty(so, s, id) == QtySum(RowsOf(so, s, id))

\* Upsert with a fault: a plain INSERT, without the ON DUPLICATE KEY clause
UpsertAlwaysInserts(so, s, id, q) ==
    so \cup {[session_id |-> s, item_id |-> id, quantity |-> q]}

\* Upsert with a fault: ON DUPLICATE KEY UPDATE quantity = VALUES(quantity)
UpsertOverwrites(so, s, id, q) ==
    IF RowsOf(so, s, id) # {}
    THEN {IF session_orders_key(r) = <<s, id>> THEN [r EXCEPT !.quantity = q] ELSE r :
            r \in so}
    ELSE so \cup {[session_id |-> s, item_id |-> id, quantity |-> q]}

\* INSERT INTO session_orders ... ON DUPLICATE KEY UPDATE
\*     quantity = quantity + VALUES(quantity)
Upsert(so, s, id, q) ==
    IF RowsOf(so, s, id) # {}
    THEN {IF session_orders_key(r) = <<s, id>> THEN [r EXCEPT !.quantity = @ + q] ELSE r :
            r \in so}
    ELSE so \cup {[session_id |-> s, item_id |-> id, quantity |-> q]}

\* cursor.executemany(upsert, upsert_data): one row per valid item
RECURSIVE UpsertMany(_, _, _, _)
UpsertMany(so, s, names, valid_items) ==
    IF names = {} THEN so
    ELSE LET n == CHOOSE x \in names : TRUE
         IN UpsertMany(Upsert(so, s, name_to_id({n})[n], valid_items[n]),
                       s, names \ {n}, valid_items)

\* update_session_order_batch with a fault: the commit comes after the
\* first upsert instead of after the last
BatchCommitsFirstUpsert(so, s, items_dict, ok) ==
    IF DOMAIN items_dict = {} THEN [so |-> so, ret |-> "True"]
    ELSE IF ~ok THEN [so |-> so, ret |-> "False"]
    ELSE LET ids == name_to_id(DOMAIN items_dict)
             valid == DOMAIN ids
         IN IF valid = {} THEN [so |-> so, ret |-> "False"]
            ELSE [so |-> UpsertMany(so, s, {CHOOSE n \in valid : TRUE}, items_dict),
                  ret |-> "True"]

\* update_session_order_batch: the table it commits and the value it
\* returns.  ok = FALSE is a store failure: the transaction is rolled back.
update_session_order_batch(so, s, items_dict, ok) ==
    IF DOMAIN items_dict = {} THEN [so |-> so, ret |-> "True"]
    ELSE IF ~ok THEN [so |-> so, ret |-> "False"]
    ELSE LET ids == name_to_id(DOMAIN items_dict)
             valid == DOMAIN ids
         IN IF valid = {} THEN [so |-> so, ret |-> "False"]
            ELSE [so |-> UpsertMany(so, s, valid, items_dict), ret |-> "True"]

\* update_session_order: the batch of the single item
update_session_order(so, s, item, quantity, ok) ==
    update_session_order_batch(so, s, [n \in {item} |-> quantity], ok)

\* get_session_order: SELECT f.name, s.quantity FROM session_orders s JOIN
\* food_items f ... WHERE s.session_id = s, as a dict
get_session_order(so, s) ==
    LET rows == {r \in so : r.session_id = s /\ r.item_id \in ItemIds}
    IN [n \in {ItemName(r.item_id) : r \in rows} |->
            (CHOOSE r \in rows : ItemName(r.item_id) = n).quantity]

\* clear_session_order with a fault: the DELETE has no WHERE clause
ClearEverySession(so, s) == {}

\* DELETE FROM session_orders WHERE session_id = s
clear_session_order(so, s) == {r \in so : r.session_id # s}

\* remove_from_session_order, first statement: the row of food_items whose
\* name equals item, else (second statement) the rows a partial,
\* case-insensitive match finds; LIMIT 1 takes any one of them
RemoveMatches(item) ==
    LET exact == {f \in food_items : f.name = item}
        partial == {f \in food_items :
                       \/ LIKE(LOWER(f.name), LOWER(item))
                       \/ LIKE(LOWER(item), LOWER(f.name))}
    IN IF exact # {} THEN exact ELSE partial

\* if current_qty > qty: UPDATE ... quantity - qty  else: DELETE
RemoveDecrements(current_qty, qty) == current_qty > qty

\* UPDATE session_orders SET quantity = quantity - qty WHERE key = (s, id)
DecrementRow(so, s, id, qty) ==
    {IF session_orders_key(r) = <<s, id>> THEN [r EXCEPT !.quantity = @ - qty] ELSE r :
        r \in so}

\* DELETE FROM session_orders WHERE key = (s, id)
DeleteRow(so, s, id) == so \ RowsOf(so, s, id)

(* ------------------------------- ledger -------------------------------- *)
\* orders is the sequence of rows [order_id, item_id, quantity, total_price]
\* in insertion order; order_tracking the sequence of rows [order_id, status].

OrderIds(ord) == {ord[k].order_id : k \in DOMAIN ord}

\* SELECT MAX(order_id) FROM orders; 1 if result is None else result + 1
get_next_order_id(ord) ==
    IF ord = <<>> THEN 1 ELSE MaxOf(OrderIds(ord)) + 1

\* line_total = float(price) * int(qty)
line_total(price, qty) == price * qty

\* the rows finalize_order_and_get_total prepares: one per name of order_dict
\* that food_items resolves, in the order of the dict
RECURSIVE order_items(_, _, _)
order_items(order_dict, names, oid) ==
    LET known == DOMAIN item_details(names)
    IN IF known = {} THEN <<>>
       ELSE LET n == CHOOSE x \in known :
                        \A y \in known :
                            item_details({x})[x].item_id <= item_details({y})[y].item_id
                f == item_details({n})[n]
            IN <<[order_id |-> oid, item_id |-> f.item_id,
                  quantity |-> order_dict[n],
                  total_price |-> line_total(f.price, order_dict[n])]>>
               \o order_items(order_dict, known \ {n}, oid)

RECURSIVE SumPrices(_)
SumPrices(rows) ==
    IF rows = <<>> THEN 0 ELSE Head(rows).total_price + SumPrices(Tail(rows))

\* SELECT SUM(total_price) FROM orders WHERE order_id = oid; 0 when NULL
get_total_order_price(ord, oid) ==
    SumPrices(SelectSeq(ord, LAMBDA r : r.order_id = oid))

LinesOf(ord, oid) == SelectSeq(ord, LAMBDA r : r.order_id = oid)

TrackingOf(trk, oid) == SelectSeq(trk, LAMBDA r : r.order_id = oid)

(* -------------------------------- state -------------------------------- *)
VARIABLES
    session_orders,   \* the session_orders table
    orders,           \* the orders table
    order_tracking,   \* the order_tracking table
    pc,               \* where each task stands in its handler
    session,          \* the session_id of the task's request
    items,            \* items_to_add of add_to_order / order of complete_order
    todo,             \* remove_from_order: the (item, qty) pairs still to remove
    cur,              \* remove_from_session_order: item_id and current_qty read
    order_id,         \* finalize_order_and_get_total: the order_id computed
    lists,            \* remove_from_order: its removed and not_found lists
    resp,             \* what the step just taken returned: the handler's
                      \* response and the db_helper function's return value;
                      \* fault: the step has met a store failure;
                      \* session: the session_id new_order was called with
    nreq,             \* number of requests received
    expected,         \* history: per cart key, qty: the quantity after the
                      \* last write that was no add plus the quantities added
                      \* since, and adds: how many adds that is (2: two or more)
    race,             \* history: two adds in flight together on one session
    since             \* history: per task between the SELECTs and the write of
                      \* a remove, what other tasks have committed to the line
                      \* it read

vars == <<session_orders, orders, order_tracking, pc, session, items, todo,
          cur, order_id, lists, resp, nreq, expected, race, since>>

CartKeys == Sessions \X ItemIds

NoResp ==
    [kind |-> "none", ret |-> "none", order_id |-> 0, total |-> 0,
     added |-> <<>>, removed |-> <<>>, not_found |-> <<>>, remaining |-> EmptyDict,
     status |-> "none", fault |-> FALSE, session |-> "none"]

NoCur == [item_id |-> 0, current_qty |-> 0]

NoLists == [removed |-> <<>>, not_found |-> <<>>]

NoRace == [phase |-> 0, session |-> "none", task |-> "none", target |-> EmptyDict]

NoOp == [op |-> "none", qty |-> 0]

\* more than one commit, or a commit that is neither one add nor one remove
OtherOps == [op |-> "other", qty |-> 0]

Init ==
    /\ session_orders = {}
    /\ orders = <<>>
    /\ order_tracking = <<>>
    /\ pc = [t \in Tasks |-> "idle"]
    /\ session = [t \in Tasks |-> "none"]
    /\ items = [t \in Tasks |-> EmptyDict]
    /\ todo = [t \in Tasks |-> <<>>]
    /\ cur = [t \in Tasks |-> NoCur]
    /\ order_id = [t \in Tasks |-> 0]
    /\ lists = [t \in Tasks |-> NoLists]
    /\ resp = NoResp
    /\ nreq = 0
    /\ expected = [k \in CartKeys |-> [qty |-> 0, adds |-> 0]]
    /\ race = NoRace
    /\ since = [t \in Tasks |-> NoOp]

(* ------------------------- request parameters -------------------------- *)
\* the (food_items, number) parameters of the order.add requests: one name
\* with its quantity, and requests with two names, a name twice, a missing
\* quantity, no resolvable name and no name at all
AddRequests ==
    {<<(<<n>>), (<<q>>)>> : n \in {Pizza, Chole}, q \in 1..MaxQty}
    \cup { <<(<<Pizza, Chole>>), (<<1>>)>>,
           <<(<<Sushi, Pizza>>), (<<MaxQty, 1>>)>>,
           <<(<<Chole, Chole>>), (<<1, 1>>)>>,
           <<(<<Sushi>>), (<<1>>)>>,
           <<(<<>>), (<<>>)>> }

\* the (food_items, number) parameters of the order.remove requests
RemoveRequests ==
    {<<(<<n>>), (<<q>>)>> : n \in Names, q \in 1..MaxQty}
    \cup { <<(<<Pizza, Chole>>), (<<MaxQty>>)>>,
           <<(<<>>), (<<>>)>> }

\* add_to_order: quantities padded with 1 up to the length of food_items
PadQuantities(food, quantities) ==
    [k \in 1..(IF Len(quantities) < Len(food) THEN Len(food) ELSE Len(quantities)) |->
        IF k <= Len(quantities) THEN quantities[k] ELSE 1]

\* add_to_order: for i, item in enumerate(food_items): items_to_add[item] = qty
ItemsToAdd(food, quantities) ==
    [n \in Range(food) |->
        PadQuantities(food, quantities)[MaxOf({k \in 1..Len(food) : food[k] = n})]]

\* add_to_order: response_items.append(f"{qty} {item}")
ResponseItems(food, quantities) ==
    [k \in 1..Len(food) |-> <<PadQuantities(food, quantities)[k], food[k]>>]

\* remove_from_order: qty = int(quantities[idx]) if idx < len(quantities) else 1
RemovePairs(food, quantities) ==
    [k \in 1..Len(food) |->
        [item |-> food[k], qty |-> IF k <= Len(quantities) THEN quantities[k] ELSE 1]]

\* a webhook request arrives at an idle task
Receive(t) ==
    /\ pc[t] = "idle"
    /\ nreq < MaxRequests
    /\ nreq' = nreq + 1

\* the task's handler has returned
Idle(t) ==
    /\ pc' = [pc EXCEPT ![t] = "idle"]
    /\ session' = [session EXCEPT ![t] = "none"]
    /\ items' = [items EXCEPT ![t] = EmptyDict]
    /\ todo' = [todo EXCEPT ![t] = <<>>]
    /\ cur' = [cur EXCEPT ![t] = NoCur]
    /\ order_id' = [order_id EXCEPT ![t] = 0]
    /\ lists' = [lists EXCEPT ![t] = NoLists]

(* ------------------------------ history -------------------------------- *)
\* the ids of food_items that a dict of names resolves
ValidIds(d) == {f.item_id : f \in {g \in food_items : g.name \in DOMAIN d}}

\* quantity already asked for (s, id) by add tasks not yet run
Pending(s, id) ==
    LET ts == {u \in Tasks : pc[u] = "batch" /\ session[u] = s
                              /\ ItemName(id) \in DOMAIN items[u]}
    IN SumOver(ts, [u \in ts |-> items[u][ItemName(id)]])

ExpectedAfterAdd(s, d) ==
    [k \in CartKeys |->
        IF k[1] = s /\ k[2] \in ValidIds(d)
        THEN [qty |-> expected[k].qty + d[ItemName(k[2])],
              adds |-> IF expected[k].adds = 0 THEN 1 ELSE 2]
        ELSE expected[k]]

\* a write that is no add has changed the lines (s, id), id in ids
ExpectedAfterWrite(so, s, ids) ==
    [k \in CartKeys |->
        IF k[1] = s /\ k[2] \in ids
        THEN [qty |-> Qty(so, k[1], k[2]), adds |-> 0] ELSE expected[k]]

RaceAfterWrite(s, ids) ==
    IF race.session = s /\ DOMAIN race.target \cap ids # {} THEN NoRace ELSE race

RaceAfterAdd(t, so) ==
    LET s == session[t]
        others == {u \in Tasks \ {t} :
                      /\ pc[u] = "batch" /\ session[u] = s
                      /\ ValidIds(items[u]) \cap ValidIds(items[t]) # {}}
    IN IF race.phase = 1 /\ race.task = t /\ race.session = s
       THEN [race EXCEPT !.phase = 2]
       ELSE IF others # {}
       THEN LET u == CHOOSE x \in others : TRUE
                common == ValidIds(items[u]) \cap ValidIds(items[t])
            IN [phase |-> 1, session |-> s, task |-> u,
                target |-> [i \in common |-> Qty(so, s, i) + items[u][ItemName(i)]]]
       ELSE RaceAfterWrite(s, ValidIds(items[t]))

\* task t has committed ops[id] to the lines (s, id), id in DOMAIN ops: what
\* the removes of other tasks that have read such a line and not yet written
\* have had committed under them
SinceAfterWrite(t, s, ops) ==
    [u \in Tasks |->
        IF u = t THEN NoOp
        ELSE IF pc[u] = "rm_write" /\ session[u] = s /\ cur[u].item_id \in DOMAIN ops
        THEN IF since[u] = NoOp THEN ops[cur[u].item_id] ELSE OtherOps
        ELSE since[u]]

(* ------------------------------- handlers ------------------------------ *)
\* new_order: clear_session_order in one transaction; a store failure is
\* rolled back and the handler answers all the same
NewOrder(t) ==
    /\ Receive(t)
    /\ \E s \in Sessions, ok \in BOOLEAN :
        /\ IF ok
           THEN /\ session_orders' = clear_session_order(session_orders, s)
                /\ expected' = ExpectedAfterWrite(session_orders', s, ItemIds)
                /\ race' = RaceAfterWrite(s, ItemIds)
                /\ since' = SinceAfterWrite(t, s, [i \in ItemIds |-> OtherOps])
           ELSE UNCHANGED <<session_orders, expected, race, since>>
        /\ resp' = [NoResp EXCEPT !.kind = "new_order",
                                  !.ret = IF ok THEN "True" ELSE "False",
                                  !.fault = ~ok,
                                  !.session = s]
    /\ UNCHANGED <<orders, order_tracking, pc, session, items, todo, cur, order_id,
                   lists>>

\* add_to_order: builds items_to_add, answers "Added ..." and leaves
\* process_order_batch behind as a task of its own
AddToOrder(t) ==
    /\ Receive(t)
    /\ \E s \in Sessions, rq \in AddRequests :
        LET d == ItemsToAdd(rq[1], rq[2])
        IN /\ \A id \in ValidIds(d) :
                Qty(session_orders, s, id) + Pending(s, id) + d[ItemName(id)]
                    <= MaxCartQty
           /\ session' = [session EXCEPT ![t] = s]
           /\ items' = [items EXCEPT ![t] = d]
           /\ resp' = [NoResp EXCEPT !.kind = "added",
                                     !.added = ResponseItems(rq[1], rq[2])]
    /\ pc' = [pc EXCEPT ![t] = "batch"]
    /\ UNCHANGED <<session_orders, orders, order_tracking, todo, cur, order_id,
                   lists, expected, race, since>>

\* process_order_batch: update_session_order_batch in one transaction
ProcessOrderBatch(t) ==
    /\ pc[t] = "batch"
    /\ \E ok \in BOOLEAN :
        LET r == update_session_order_batch(session_orders, session[t], items[t], ok)
        IN /\ session_orders' = r.so
           /\ resp' = [NoResp EXCEPT !.ret = r.ret,
                                     !.fault = ~ok /\ DOMAIN items[t] # {}]
           /\ IF r.ret = "True"
              THEN /\ expected' = ExpectedAfterAdd(session[t], items[t])
                   /\ race' = IF ValidIds(items[t]) = {} THEN race
                              ELSE RaceAfterAdd(t, r.so)
                   /\ since' = SinceAfterWrite(t, session[t],
                                    [i \in ValidIds(items[t]) |->
                                        [op |-> "add", qty |-> items[t][ItemName(i)]]])
              ELSE /\ race' = IF race.task = t THEN NoRace ELSE race
                   /\ UNCHANGED <<expected, since>>
    /\ Idle(t)
    /\ UNCHANGED <<orders, order_tracking, nreq>>

\* remove_from_order: parses the request and reads the order for its log
RemoveFromOrder(t) ==
    /\ Receive(t)
    /\ \E s \in Sessions, rq \in RemoveRequests :
        /\ session' = [session EXCEPT ![t] = s]
        /\ todo' = [todo EXCEPT ![t] = RemovePairs(rq[1], rq[2])]
        /\ pc' = [pc EXCEPT ![t] = IF rq[1] = <<>> THEN "rm_after" ELSE "rm_select"]
    /\ resp' = NoResp
    /\ UNCHANGED <<session_orders, orders, order_tracking, items, cur, order_id,
                   lists, expected, race, since>>

\* what remove_from_order does with the result of one item
RemoveNext(t, result) ==
    LET item == Head(todo[t]).item
        qty == Head(todo[t]).qty
    IN /\ resp' = [NoResp EXCEPT !.ret = result, !.fault = (result = "error")]
       /\ lists' = [lists EXCEPT ![t] =
            IF result = "removed"
            THEN [@ EXCEPT !.removed = Append(@, <<qty, item>>)]
            ELSE IF result = "all_removed"
            THEN [@ EXCEPT !.removed = Append(@, <<0, item>>)]
            ELSE IF result = "not_found"
            THEN [@ EXCEPT !.not_found = Append(@, item)]
            ELSE @]
       /\ todo' = [todo EXCEPT ![t] = Tail(@)]
       /\ pc' = [pc EXCEPT ![t] = IF Len(todo[t]) = 1 THEN "rm_after" ELSE "rm_select"]

\* remove_from_session_order, the SELECTs: a consistent read of the item and
\* of the quantity the session holds of it
RemoveSelect(t) ==
    /\ pc[t] = "rm_select"
    /\ \/ /\ RemoveNext(t, "error")
          /\ UNCHANGED cur
       \/ /\ RemoveMatches(Head(todo[t]).item) = {}
          /\ RemoveNext(t, "not_found")
          /\ UNCHANGED cur
       \/ \E f \in RemoveMatches(Head(todo[t]).item) :
            LET current_qty == Qty(session_orders, session[t], f.item_id)
            IN IF current_qty = 0
               THEN /\ RemoveNext(t, "not_found")
                    /\ UNCHANGED cur
               ELSE /\ cur' = [cur EXCEPT ![t] =
                                 [item_id |-> f.item_id, current_qty |-> current_qty]]
                    /\ pc' = [pc EXCEPT ![t] = "rm_write"]
                    /\ resp' = NoResp
                    /\ UNCHANGED <<todo, lists>>
    /\ UNCHANGED <<session_orders, orders, order_tracking, session, items, order_id,
                   nreq, expected, race, since>>

\* remove_from_session_order, the UPDATE or DELETE and the commit
RemoveWrite(t) ==
    /\ pc[t] = "rm_write"
    /\ \/ /\ RemoveNext(t, "error")
          /\ since' = [since EXCEPT ![t] = NoOp]
          /\ UNCHANGED <<session_orders, expected, race>>
       \/ /\ IF RemoveDecrements(cur[t].current_qty, Head(todo[t]).qty)
             THEN /\ session_orders' = DecrementRow(session_orders, session[t],
                                                    cur[t].item_id, Head(todo[t]).qty)
                  /\ RemoveNext(t, "removed")
             ELSE /\ session_orders' = DeleteRow(session_orders, session[t],
                                                 cur[t].item_id)
                  /\ RemoveNext(t, "all_removed")
          /\ expected' = ExpectedAfterWrite(session_orders', session[t],
                                             {cur[t].item_id})
          /\ race' = RaceAfterWrite(session[t], {cur[t].item_id})
          /\ since' = SinceAfterWrite(t, session[t],
                           [i \in {cur[t].item_id} |->
                               IF since[t] = NoOp
                               THEN [op |-> "remove", qty |-> Head(todo[t]).qty]
                               ELSE OtherOps])
    /\ cur' = [cur EXCEPT ![t] = NoCur]
    /\ UNCHANGED <<orders, order_tracking, session, items, order_id, nreq>>

\* remove_from_order: reads the order again (a store failure gives {}) and
\* answers
RemoveAfter(t) ==
    /\ pc[t] = "rm_after"
    /\ \E ok \in BOOLEAN :
        resp' = [NoResp EXCEPT !.kind = "removed",
                               !.removed = lists[t].removed,
                               !.not_found = lists[t].not_found,
                               !.remaining =
                                   IF ok THEN get_session_order(session_orders, session[t])
                                   ELSE EmptyDict,
                               !.fault = ~ok]
    /\ Idle(t)
    /\ UNCHANGED <<session_orders, orders, order_tracking, nreq, expected, race, since>>

\* in-flight complete_order requests
Finalizing == {u \in Tasks : pc[u] \in {"fin_max", "fin_write"}}

\* FinalizeWrites with a fault: the order rows are committed before the
\* failure is noticed
FinalizeKeepsRowsOnFailure(ord, trk, so, s, order_dict, oid, ok) ==
    LET rows == order_items(order_dict, DOMAIN order_dict, oid)
    IN IF ~ok
       THEN [orders |-> ord \o rows, order_tracking |-> trk, session_orders |-> so,
             order_id |-> 0, total |-> 0]
       ELSE IF rows = <<>>
       THEN [orders |-> ord, order_tracking |-> trk, session_orders |-> so,
             order_id |-> 0, total |-> 0]
       ELSE [orders |-> ord \o rows,
             order_tracking |-> Append(trk, [order_id |-> oid, status |-> "in progress"]),
             session_orders |-> clear_session_order(so, s),
             order_id |-> oid, total |-> SumPrices(rows)]

\* FinalizeWrites with a fault: every statement is committed as it is
\* executed, and the failure comes at the DELETE
FinalizeKeepsOrderOnFailure(ord, trk, so, s, order_dict, oid, ok) ==
    LET rows == order_items(order_dict, DOMAIN order_dict, oid)
    IN IF rows = <<>>
       THEN [orders |-> ord, order_tracking |-> trk, session_orders |-> so,
             order_id |-> 0, total |-> 0]
       ELSE IF ~ok
       THEN [orders |-> ord \o rows,
             order_tracking |-> Append(trk, [order_id |-> oid, status |-> "in progress"]),
             session_orders |-> so, order_id |-> 0, total |-> 0]
       ELSE [orders |-> ord \o rows,
             order_tracking |-> Append(trk, [order_id |-> oid, status |-> "in progress"]),
             session_orders |-> clear_session_order(so, s),
             order_id |-> oid, total |-> SumPrices(rows)]

\* FinalizeWrites with a fault: the rows the tables hold under the order id
\* are replaced, as REPLACE INTO on a key order_id would
FinalizeReplacesOrder(ord, trk, so, s, order_dict, oid, ok) ==
    LET rows == order_items(order_dict, DOMAIN order_dict, oid)
    IN IF ~ok \/ rows = <<>>
       THEN [orders |-> ord, order_tracking |-> trk, session_orders |-> so,
             order_id |-> 0, total |-> 0]
       ELSE [orders |-> SelectSeq(ord, LAMBDA r : r.order_id # oid) \o rows,
             order_tracking |->
                 Append(SelectSeq(trk, LAMBDA r : r.order_id # oid),
                        [order_id |-> oid, status |-> "in progress"]),
             session_orders |-> clear_session_order(so, s),
             order_id |-> oid, total |-> SumPrices(rows)]

\* finalize_order_and_get_total from "Get all item details" on: the rows for
\* the resolvable names, the three writes and the commit; order_id 0 stands
\* for None.  ok = FALSE is a store failure: the transaction is rolled back.
FinalizeWrites(ord, trk, so, s, order_dict, oid, ok) ==
    LET rows == order_items(order_dict, DOMAIN order_dict, oid)
    IN IF ~ok \/ rows = <<>>
       THEN [orders |-> ord, order_tracking |-> trk, session_orders |-> so,
             order_id |-> 0, total |-> 0]
       ELSE [orders |-> ord \o rows,
             order_tracking |-> Append(trk, [order_id |-> oid, status |-> "in progress"]),
             session_orders |-> clear_session_order(so, s),
             order_id |-> oid, total |-> SumPrices(rows)]

\* complete_order: get_session_order in a transaction of its own, and the
\* answer when the order is empty
CompleteOrder(t) ==
    /\ Receive(t)
    /\ Len(order_tracking) + Cardinality(Finalizing) < MaxOrders
    /\ \E s \in Sessions, ok \in BOOLEAN :
        LET order == IF ok THEN get_session_order(session_orders, s) ELSE EmptyDict
        IN IF DOMAIN order = {}
           THEN /\ resp' = [NoResp EXCEPT !.kind = "empty_cart", !.fault = ~ok]
                /\ UNCHANGED <<pc, session, items>>
           ELSE /\ resp' = NoResp
                /\ session' = [session EXCEPT ![t] = s]
                /\ items' = [items EXCEPT ![t] = order]
                /\ pc' = [pc EXCEPT ![t] = "fin_max"]
    /\ UNCHANGED <<session_orders, orders, order_tracking, todo, cur, order_id,
                   lists, expected, race, since>>

\* finalize_order_and_get_total: SELECT MAX(order_id) FROM orders
FinalizeMax(t) ==
    /\ pc[t] = "fin_max"
    /\ \/ /\ order_id' = [order_id EXCEPT ![t] = get_next_order_id(orders)]
          /\ pc' = [pc EXCEPT ![t] = "fin_write"]
          /\ resp' = NoResp
          /\ UNCHANGED <<session, items, todo, cur, lists>>
       \/ /\ Idle(t)
          /\ resp' = [NoResp EXCEPT !.kind = "order_error", !.fault = TRUE]
    /\ UNCHANGED <<session_orders, orders, order_tracking, nreq, expected, race, since>>

\* finalize_order_and_get_total: the inserts, the DELETE and the commit, and
\* complete_order's answer
FinalizeCommit(t) ==
    /\ pc[t] = "fin_write"
    /\ \E ok \in BOOLEAN :
        LET r == FinalizeWrites(orders, order_tracking, session_orders, session[t],
                                items[t], order_id[t], ok)
        IN /\ orders' = r.orders
           /\ order_tracking' = r.order_tracking
           /\ session_orders' = r.session_orders
           /\ resp' = IF r.order_id = 0
                      THEN [NoResp EXCEPT !.kind = "order_error", !.fault = ~ok]
                      ELSE [NoResp EXCEPT !.kind = "order_placed",
                                          !.order_id = r.order_id, !.total = r.total]
           /\ expected' = IF r.order_id = 0 THEN expected
                          ELSE ExpectedAfterWrite(r.session_orders, session[t], ItemIds)
           /\ race' = IF r.order_id = 0 THEN race
                      ELSE RaceAfterWrite(session[t], ItemIds)
           /\ since' = IF r.order_id = 0 THEN since
                       ELSE SinceAfterWrite(t, session[t], [i \in ItemIds |-> OtherOps])
    /\ Idle(t)
    /\ UNCHANGED nreq

\* get_order_status: fetchone() of the tracking rows of the order
get_order_status(trk, oid) ==
    IF TrackingOf(trk, oid) = <<>> THEN {"none"}
    ELSE {r.status : r \in Range(TrackingOf(trk, oid))}

\* track_order
TrackOrder(t) ==
    /\ Receive(t)
    /\ \E oid \in 0..MaxOrders, ok \in BOOLEAN :
        \E status \in (IF ok THEN get_order_status(order_tracking, oid) ELSE {"none"}) :
            resp' =
                IF oid = 0 THEN [NoResp EXCEPT !.kind = "invalid_order_id"]
                ELSE IF status = "none"
                THEN [NoResp EXCEPT !.kind = "no_order", !.order_id = oid,
                                    !.fault = ~ok]
                ELSE [NoResp EXCEPT !.kind = "status", !.order_id = oid,
                                    !.status = status]
    /\ UNCHANGED <<session_orders, orders, order_tracking, pc, session, items, todo,
                   cur, order_id, lists, expected, race, since>>

Next ==
    \E t \in Tasks :
        \/ NewOrder(t)
        \/ AddToOrder(t)
        \/ ProcessOrderBatch(t)
        \/ RemoveFromOrder(t)
        \/ RemoveSelect(t)
        \/ RemoveWrite(t)
        \/ RemoveAfter(t)
        \/ CompleteOrder(t)
        \/ FinalizeMax(t)
        \/ FinalizeCommit(t)
        \/ TrackOrder(t)

Spec == Init /\ [][Next]_vars

(* ------------------------------ properties ---------------------------- *)
CartRows(so, s) == {r \in so : r.session_id = s}

\* the step is task t's finalize committing an order
Placed(t) ==
    /\ pc[t] = "fin_write"
    /\ pc'[t] = "idle"
    /\ resp'.kind = "order_placed"

\* the rows the step appended to orders
NewLines == SubSeq(orders', Len(orders) + 1, Len(orders'))

\* C1: a cart key never has more than one line, and after adds of q1..qn to
\* the key with no remove, clear or finalize of it in between, it has exactly
\* one line, whose quantity is the quantity before them plus q1 + ... + qn.
C1_MergeAdd ==
    \A k \in CartKeys :
        LET rows == RowsOf(session_orders, k[1], k[2])
        IN /\ Cardinality(rows) <= 1
           /\ expected[k].adds > 0 =>
                /\ Cardinality(rows) = 1
                /\ Qty(session_orders, k[1], k[2]) = expected[k].qty

\* two adds have been merged into one line
C1_TwoAddsMerged ==
    \E k \in CartKeys :
        /\ expected[k].adds = 2
        /\ Cardinality(RowsOf(session_orders, k[1], k[2])) = 1
        /\ Qty(session_orders, k[1], k[2]) = MaxCartQty

\* C2: when a remove of k acts on an existing line of quantity q, then k < q
\* leaves the line with q - k and returns "removed", and k >= q deletes the
\* line and returns "all_removed".
C2_RemoveTieBreak ==
    [][\A t \in Tasks :
        (/\ pc[t] = "rm_write"
         /\ pc'[t] # "rm_write"
         /\ resp'.ret \in {"removed", "all_removed"}
         /\ RowsOf(session_orders, session[t], cur[t].item_id) # {})
        => LET s == session[t]
               id == cur[t].item_id
               k == Head(todo[t]).qty
               q == Qty(session_orders, s, id)
           IN /\ k < q => /\ Qty(session_orders', s, id) = q - k
                          /\ resp'.ret = "removed"
              /\ k >= q => /\ RowsOf(session_orders', s, id) = {}
                           /\ resp'.ret = "all_removed"]_vars

\* C3: every cart line has a quantity > 0, and get_session_order returns no
\* quantity <= 0.
C3_PositiveQuantities ==
    /\ \A r \in session_orders : r.quantity > 0
    /\ \A s \in Sessions :
        \A n \in DOMAIN get_session_order(session_orders, s) :
            get_session_order(session_orders, s)[n] > 0

\* C4: after a finalize of session s that returns order id N, the cart of s is
\* empty, the ledger has under N exactly one line for each item of the cart
\* finalized, with the cart's quantity, and N has exactly one tracking entry,
\* "in progress".
C4_FinalizePostcondition ==
    [][\A t \in Tasks :
        Placed(t) =>
            LET N == resp'.order_id
                lines == LinesOf(orders', N)
            IN /\ CartRows(session_orders', session[t]) = {}
               /\ Len(lines) = Cardinality(DOMAIN items[t])
               /\ \A n \in DOMAIN items[t] :
                    \E j \in DOMAIN lines :
                        /\ ItemName(lines[j].item_id) = n
                        /\ lines[j].quantity = items[t][n]
               /\ TrackingOf(order_tracking', N)
                    = <<[order_id |-> N, status |-> "in progress"]>>]_vars

\* C5: every cart line a finalize deletes is a line, with the same quantity,
\* of the order it writes.
C5_FinalizeAtomic ==
    [][\A t \in Tasks :
        Placed(t) =>
            \A r \in CartRows(session_orders, session[t]) :
                \E j \in DOMAIN NewLines :
                    /\ NewLines[j].order_id = resp'.order_id
                    /\ NewLines[j].item_id = r.item_id
                    /\ NewLines[j].quantity = r.quantity]_vars

\* C6: no two orders have the same order id.
C6_DistinctOrderIds ==
    \A i, j \in DOMAIN order_tracking :
        i # j => order_tracking[i].order_id # order_tracking[j].order_id

\* C7: the order id a finalize returns is 1 + the largest order id of the
\* ledger (1 for an empty ledger) and greater than every order id returned
\* before.
C7_OrderIdMonotonic ==
    [][\A t \in Tasks :
        Placed(t) =>
            /\ resp'.order_id = get_next_order_id(orders)
            /\ \A id \in OrderIds(orders) : resp'.order_id > id]_vars

\* C8: a finalize that fails writes no order line and no tracking entry,
\* leaves the cart as it is and consumes no order id.
C8_FailedFinalizeWritesNothing ==
    [][resp'.kind \in {"empty_cart", "order_error"} =>
        /\ session_orders' = session_orders
        /\ orders' = orders
        /\ order_tracking' = order_tracking
        /\ get_next_order_id(orders') = get_next_order_id(orders)]_vars

\* a finalize has failed after an order was placed, with a cart at hand
C8_FinalizeFailed ==
    /\ resp.kind = "order_error"
    /\ orders # <<>>
    /\ session_orders # {}

\* C9: the total a finalize returns with order id N is the sum of the line
\* totals it wrote, is not negative, and is what get_total_order_price(N)
\* returns afterwards.
C9_TotalMatches ==
    [][\A t \in Tasks :
        Placed(t) =>
            /\ resp'.total = SumPrices(NewLines)
            /\ resp'.total >= 0
            /\ get_total_order_price(orders', resp'.order_id) = resp'.total]_vars

\* C10: when two adds to one session that were in flight together have both
\* run, each line both of them add to holds the quantity it held before plus
\* the two quantities added.
C10_NoLostUpdate ==
    race.phase = 2 =>
        \A i \in DOMAIN race.target :
            Qty(session_orders, race.session, i) = race.target[i]

\* both adds of such a pair have run
C10_BothAddsRan ==
    /\ race.phase = 2
    /\ race.target # EmptyDict

\* the quantity of a line of quantity q after a remove of k run in one piece:
\* 0 stands for no line
RemoveOnce(q, k) == IF q > k THEN q - k ELSE 0

\* the quantities the line can hold after a remove of k that has read q0 and
\* the op committed under it, run one after the other in either order
SerialOutcomes(q0, k, op) ==
    IF op.op = "add"
    THEN {RemoveOnce(q0, k) + op.qty, RemoveOnce(q0 + op.qty, k)}
    ELSE IF op.op = "remove"
    THEN {RemoveOnce(RemoveOnce(q0, k), op.qty), RemoveOnce(RemoveOnce(q0, op.qty), k)}
    ELSE {RemoveOnce(q0, k)}

\* the rows of (s, id) when the line holds quantity q
LineRows(s, id, q) ==
    IF q = 0 THEN {} ELSE {[session_id |-> s, item_id |-> id, quantity |-> q]}

\* C11: when a remove writes with at most one add or one remove committed to
\* its line since it read it, the line is left as running the remove and
\* that operation one after the other, in one of the two orders, leaves it.
C11_RemoveSerializable ==
    [][\A t \in Tasks :
        (/\ pc[t] = "rm_write"
         /\ pc'[t] # "rm_write"
         /\ resp'.ret \in {"removed", "all_removed"}
         /\ since[t] # OtherOps)
        => \E q \in SerialOutcomes(cur[t].current_qty, Head(todo[t]).qty, since[t]) :
              RowsOf(session_orders', session[t], cur[t].item_id)
                  = LineRows(session[t], cur[t].item_id, q)]_vars

\* C12: when add_to_order answers "Added ...", the cart holds what
\* update_session_order_batch commits for the request: the quantities added
\* are there for every request that comes after the answer.
C12_AddAppliedAtConfirmation ==
    [][\A t \in Tasks :
        (/\ pc[t] = "idle"
         /\ pc'[t] # "idle"
         /\ resp'.kind = "added")
        => session_orders'
             = update_session_order_batch(session_orders, session'[t], items'[t],
                                          TRUE).so]_vars

\* the step is task t's remove_from_session_order returning from its SELECTs
\* or handing over to its write
Selected(t) ==
    /\ pc[t] = "rm_select"
    /\ \/ pc'[t] # "rm_select"
       \/ todo'[t] # todo[t]

\* C13: a remove of a name that equals no name of food_items, or of a name
\* whose item has no line in the cart of the session, returns "not_found"
\* (or "error" on a store failure), goes on to no write and leaves the
\* cart as it is.
C13_RemoveExactMatch ==
    [][\A t \in Tasks :
        Selected(t) =>
            LET exact == {f \in food_items : f.name = Head(todo[t]).item}
            IN (\/ exact = {}
                \/ \A f \in exact : RowsOf(session_orders, session[t], f.item_id) = {})
               => /\ resp'.ret \in {"not_found", "error"}
                  /\ pc'[t] # "rm_write"
                  /\ session_orders' = session_orders]_vars

\* the rows the step appended to order_tracking
NewTracking == SubSeq(order_tracking', Len(order_tracking) + 1, Len(order_tracking'))

\* the step is task t's finalize_order_and_get_total returning
Finalized(t) ==
    /\ pc[t] = "fin_write"
    /\ pc'[t] = "idle"

\* C14: the lines of an order, its tracking entry and the clearing of the
\* cart finalized come in one step or not at all, whether the finalize
\* succeeds or fails at any of its statements; in every state the order ids
\* of the ledger are those that have a tracking entry.
C14_NoPartialFinalize ==
    /\ [](OrderIds(orders) = {order_tracking[k].order_id : k \in DOMAIN order_tracking})
    /\ [][/\ (orders' # orders \/ order_tracking' # order_tracking) =>
                \E t \in Tasks :
                    /\ Finalized(t)
                    /\ NewLines # <<>>
                    /\ orders' = orders \o NewLines
                    /\ \A j \in DOMAIN NewLines : NewLines[j].order_id = order_id[t]
                    /\ NewTracking = <<[order_id |-> order_id[t], status |-> "in progress"]>>
                    /\ order_tracking' = order_tracking \o NewTracking
                    /\ CartRows(session_orders', session[t]) = {}
          /\ \A t \in Tasks :
                (Finalized(t) /\ session_orders' # session_orders) =>
                    /\ orders' # orders
                    /\ order_tracking' # order_tracking]_vars

\* a finalize has written an order and its tracking entry and cleared the
\* cart, with another cart at hand
C14_OrderWrittenCartCleared ==
    /\ resp.kind = "order_placed"
    /\ order_tracking # <<>>
    /\ \A k \in DOMAIN orders : orders[k].order_id \in
            {order_tracking[j].order_id : j \in DOMAIN order_tracking}
    /\ session_orders # {}

\* the answers that tell the caller that the operation has failed
FailureKinds == {"order_error"}

\* C15: a step that meets a store failure writes nothing, and when it is the
\* step that answers the request, the answer is a failure.
C15_StoreFailureSurfaces ==
    [][resp'.fault =>
        /\ session_orders' = session_orders
        /\ orders' = orders
        /\ order_tracking' = order_tracking
        /\ resp'.kind # "none" => resp'.kind \in FailureKinds]_vars

\* C16: every item that the answer of add_to_order reports as added has a
\* name that food_items resolves, so that an unresolvable name is not among
\* the added.
C16_AddedAreResolvable ==
    [][resp'.kind = "added" =>
        \A j \in DOMAIN resp'.added :
            resp'.added[j][2] \in DOMAIN name_to_id({resp'.added[j][2]})]_vars

\* C17: every item of a remove request that remove_from_order has dealt with
\* is put on exactly one of the two lists of its answer, removed or
\* not_found.
C17_EveryItemAccounted ==
    [][\A t \in Tasks :
        (/\ pc[t] \in {"rm_select", "rm_write"}
         /\ todo'[t] # todo[t])
        => LET item == Head(todo[t]).item
               removed == lists[t].removed
               not_found == lists[t].not_found
           IN \/ /\ Len(lists'[t].removed) = Len(removed) + 1
                 /\ SubSeq(lists'[t].removed, 1, Len(removed)) = removed
                 /\ lists'[t].removed[Len(removed) + 1][2] = item
                 /\ lists'[t].not_found = not_found
              \/ /\ lists'[t].not_found = Append(not_found, item)
                 /\ lists'[t].removed = removed]_vars

\* the step is task t's update_session_order_batch returning
BatchRan(t) ==
    /\ pc[t] = "batch"
    /\ pc'[t] = "idle"

\* C18: update_session_order_batch either returns True and has added, to
\* the line of every name that food_items resolves, the quantity given for
\* it, creating lines for these names only, or returns False and has changed
\* nothing; for names none of which resolves it returns False; every cart
\* line carries the item_id of a row of food_items.
C18_BatchAllOrNone ==
    /\ [](\A r \in session_orders : r.item_id \in ItemIds)
    /\ [][\A t \in Tasks :
            BatchRan(t) =>
                LET s == session[t]
                    d == items[t]
                    ids == ValidIds(d)
                IN /\ resp'.ret \in {"True", "False"}
                   /\ resp'.ret = "True" =>
                        /\ \A k \in CartKeys :
                             Qty(session_orders', k[1], k[2])
                               = Qty(session_orders, k[1], k[2])
                                 + (IF k[1] = s /\ k[2] \in ids
                                    THEN d[ItemName(k[2])] ELSE 0)
                        /\ {session_orders_key(r) : r \in session_orders'}
                             = {session_orders_key(r) : r \in session_orders}
                               \cup {<<s, i>> : i \in ids}
                   /\ resp'.ret = "False" => session_orders' = session_orders
                   /\ (DOMAIN d # {} /\ ids = {}) => resp'.ret = "False"]_vars

\* the one request so far was a batch of two resolvable names, and both
\* have their line
C18_TwoNamesMerged ==
    /\ nreq = 1
    /\ resp.ret = "True"
    /\ \E s \in Sessions : \A i \in ItemIds : Qty(session_orders, s, i) = 1

\* C19: a step changes the cart lines of one session at most, and a write
\* of update_session_order_batch, remove_from_session_order or
\* finalize_order_and_get_total changes no line of a session other than the
\* one of its request.
C19_SessionsIsolated ==
    [][/\ \E A \in Sessions :
            \A B \in Sessions \ {A} :
                CartRows(session_orders', B) = CartRows(session_orders, B)
       /\ \A t \in Tasks :
            (pc[t] \in {"batch", "rm_write", "fin_write"} /\ pc'[t] # pc[t]) =>
                \A B \in Sessions \ {session[t]} :
                    CartRows(session_orders', B) = CartRows(session_orders, B)]_vars

\* a remove has decremented a line while every session holds lines
C19_RemoveBesideOtherCart ==
    /\ resp.ret = "removed"
    /\ \A s \in Sessions : CartRows(session_orders, s) # {}

\* C20: track_order answers with the status of the last tracking entry
\* written for the order id, and with "no order" exactly when the order id
\* has no tracking entry.
C20_StatusOfLatestEntry ==
    [][resp'.kind \in {"status", "no_order"} =>
        LET rows == TrackingOf(order_tracking, resp'.order_id)
        IN /\ resp'.kind = "no_order" <=> rows = <<>>
           /\ resp'.kind = "status" => resp'.status = rows[Len(rows)].status]_vars

\* C21: when new_order has answered for session s, s has no cart line and
\* get_session_order(s) is the empty dict, and the step has changed neither
\* orders nor order_tracking.
C21_NewOrderClearsCart ==
    [][resp'.kind = "new_order" =>
        /\ CartRows(session_orders', resp'.session) = {}
        /\ get_session_order(session_orders', resp'.session) = EmptyDict
        /\ orders' = orders
        /\ order_tracking' = order_tracking]_vars

\* the answers of track_order that carry what get_order_status returned
StatusKinds == {"status", "no_order"}

\* C22: a track_order changes no table, and two track_order of one order id
\* that follow each other with no step in between give the same answer.
C22_StatusRepeatable ==
    [][/\ resp'.kind \in StatusKinds \cup {"invalid_order_id"} =>
            /\ session_orders' = session_orders
            /\ orders' = orders
            /\ order_tracking' = order_tracking
       /\ (/\ resp.kind \in StatusKinds
           /\ resp'.kind \in StatusKinds
           /\ resp'.order_id = resp.order_id)
          => /\ resp'.kind = resp.kind
             /\ resp'.status = resp.status]_vars

\* C23: every step leaves the rows of orders and of order_tracking as they
\* are, in their place, and adds rows only when it is a finalize that
\* answers with an order placed.
C23_LedgerAppendOnly ==
    [][/\ Len(orders') >= Len(orders)
       /\ SubSeq(orders', 1, Len(orders)) = orders
       /\ Len(order_tracking') >= Len(order_tracking)
       /\ SubSeq(order_tracking', 1, Len(order_tracking)) = order_tracking
       /\ (orders' # orders \/ order_tracking' # order_tracking) =>
            /\ resp'.kind = "order_placed"
            /\ \E t \in Tasks : Finalized(t)]_vars

\* a remove has written to the cart with an order in the ledger
C23_RemoveAfterOrder ==
    /\ resp.ret \in {"removed", "all_removed"}
    /\ orders # <<>>
    /\ order_tracking # <<>>

\* the table after update_session_order of each (qty, item) of pairs, one
\* after the other
RECURSIVE AddEachPair(_, _, _)
AddEachPair(so, s, pairs) ==
    IF pairs = <<>> THEN so
    ELSE AddEachPair(update_session_order(so, s, Head(pairs)[2], Head(pairs)[1], TRUE).so,
                     s, Tail(pairs))

\* C24: the batch that add_to_order hands to update_session_order_batch
\* leaves the cart as adding each pair (food_items[i], quantities[i]) of
\* the request one after the other does, a missing quantity being 1; a name
\* given twice grows by both quantities.
C24_BatchEqualsPairwise ==
    [][\A t \in Tasks :
        (/\ pc[t] = "idle"
         /\ pc'[t] = "batch"
         /\ resp'.kind = "added")
        => update_session_order_batch(session_orders, session'[t], items'[t], TRUE).so
             = AddEachPair(session_orders, session'[t], resp'.added)]_vars

====
